---- MODULE Spec2Model ----
(***************************************************************************)
(* Model of the companion web UI module/connection panels:                 *)
(*   - useModuleStoreInfo     (Modules/ModuleManagePanel.tsx)              *)
(*   - useAllConnectionProducts, filterProducts                            *)
(*                            (Hooks/useFilteredProducts.ts)               *)
(*   - AddConnectionsPanel    (Connections/AddConnectionPanel.tsx)         *)
(*   - ModulesList            (Modules/ModuleManagePanel.tsx)              *)
(*                                                                         *)
(* Strings whose characters matter (ids, product names, search text) are   *)
(* sequences of one-character strings, so that the template literal        *)
(* `${id}-${product}` and the case-insensitive text match are computed and *)
(* not assumed.                                                            *)
(***************************************************************************)
EXTENDS Integers, Sequences, FiniteSets, TLC

VARIABLES
    \* ---- useModuleStoreInfo (one hook instance) ----
    mounted,            \* "no" (not yet mounted), "yes", "gone" (unmounted)
    moduleIdProp,       \* the moduleId argument of the last render
    phase,              \* "idle", or "flush": cleanup ran, effect body is next
    effects,            \* one record per run of the effect body, oldest first
    listeners,          \* effect runs whose updateCache is registered on the socket
    moduleStoreCache,   \* the useState value: Null or a payload
    emitted,            \* the socketEmitPromise calls made, in order
    lastOp,             \* the last callback that ran, and the cache before it
    logged,             \* number of 'Failed to subscribe to module store' errors logged
    \* ---- product panels ----
    panel,              \* which component is rendered
    modules,            \* the ModuleInfoStore: installed modules and store list
    filter,             \* the search box text
    visibility,         \* the table visibility flags
    view,               \* what the last render produced
    toggleLog           \* the last two toggleVisibility calls, when recorded

subVars == <<mounted, moduleIdProp, phase, effects, listeners, moduleStoreCache,
             emitted, lastOp, logged>>
prodVars == <<panel, modules, filter, visibility, view, toggleLog>>
vars == <<mounted, moduleIdProp, phase, effects, listeners, moduleStoreCache,
          emitted, lastOp, logged, panel, modules, filter, visibility, view,
          toggleLog>>

(***************************************************************************)
(* Bounds of the model                                                     *)
(***************************************************************************)
\* how many times the effect body may run (mount plus module id changes)
MaxEffects == 3
\* how many distinct store-info snapshots the server may send per module
MaxVer == 2

(***************************************************************************)
(* useModuleStoreInfo                                                      *)
(*                                                                         *)
(* The state of the hook changes in four callbacks only: the effect body,  *)
(* the cleanup it returns, the then/catch of the subscribe promise and the *)
(* socket listener updateCache.  A render only reads moduleStoreCache.     *)
(* Callbacks run to completion on the one event loop; when the moduleId    *)
(* dependency changes React runs the old cleanup and the new effect body   *)
(* back to back, with no socket callback in between.                       *)
(***************************************************************************)
\* null, as a value that compares with a snapshot
Null == [mod |-> "null", ver |-> 0]
Undefined == "undefined"
ModuleIds == {"A", "B"}
\* moduleId: string | undefined
ModuleIdArgs == ModuleIds \cup {Undefined}

\* A ModuleStoreModuleInfoStore snapshot: the server answers a subscribe for
\* module m, and accompanies a push for module m, with a snapshot of m.
Payloads == [mod : ModuleIds, ver : 1..MaxVer]

NoOp == [op |-> "none", gen |-> 0, msg |-> Undefined, data |-> Null,
         destroyed |-> FALSE, active |-> Undefined, before |-> Null]

\* The effect run that is live: the last one, while it has not been cleaned up.
cur == Len(effects)
HasLive == cur > 0 /\ ~effects[cur].destroyed /\ effects[cur].moduleId # Undefined
\* The module id the hook is subscribed for (the live effect's closure value).
ActiveId == IF HasLive THEN effects[cur].moduleId ELSE Undefined

InitSub ==
    /\ mounted = "no"
    /\ moduleIdProp = Undefined
    /\ phase = "idle"
    /\ effects = <<>>
    /\ listeners = {}
    /\ moduleStoreCache = Null
    /\ emitted = <<>>
    /\ lastOp = NoOp
    /\ logged = 0

\* seeded fault: the push handler without its module id check
updateCache_NoIdCheck(g, msgModuleId, data, cache) ==
    IF effects[g].destroyed THEN cache ELSE data

\* const updateCache = (msgModuleId, data) => { ... } of effect run g
updateCache(g, msgModuleId, data, cache) ==
    IF effects[g].destroyed THEN cache
    ELSE IF msgModuleId # effects[g].moduleId THEN cache
    ELSE data

\* seeded fault: a subscribe response that does not replace a pushed snapshot
subscribeThen_KeepPushed(g, data, cache) ==
    IF effects[g].destroyed THEN cache
    ELSE IF cache # Null THEN cache
    ELSE data

\* seeded fault: the subscribe response applied without the destroyed check
subscribeThen_NoGuard(g, data, cache) == data

\* .then((data) => { if (destroyed) return; setModuleStoreCache(data) })
subscribeThen(g, data, cache) ==
    IF effects[g].destroyed THEN cache ELSE data

\* The effect body, run with the moduleId of the render that scheduled it.
EffectBody(m) ==
    IF m = Undefined
    THEN /\ moduleStoreCache' = Null
         /\ effects' = Append(effects, [moduleId |-> Undefined, destroyed |-> FALSE,
                                        req |-> "none"])
         /\ UNCHANGED <<listeners, emitted>>
    ELSE /\ moduleStoreCache' = Null
         /\ effects' = Append(effects, [moduleId |-> m, destroyed |-> FALSE,
                                        req |-> "pending"])
         /\ emitted' = Append(emitted, [event |-> "subscribe", moduleId |-> m])
         /\ listeners' = listeners \cup {cur + 1}

\* seeded fault: cleanup that unsubscribes only when the subscribe had succeeded
CleanupEmits_OnlyIfResolved(g) ==
    IF effects[g].req = "resolved"
    THEN <<[event |-> "unsubscribe", moduleId |-> effects[g].moduleId]>>
    ELSE <<>>

\* seeded fault: cleanup that unsubscribes with the moduleId of the new render
CleanupEmits_NewId(g) ==
    <<[event |-> "unsubscribe", moduleId |-> moduleIdProp']>>

\* socketEmitPromise(socket, 'modules-store:info:unsubscribe', [moduleId])
CleanupEmits(g) ==
    <<[event |-> "unsubscribe", moduleId |-> effects[g].moduleId]>>

\* setModuleStoreCache(null) of the cleanup
CleanupCache(cache) == Null

\* The function the effect returned (only when moduleId was defined).  The
\* outcome of the unsubscribe request is not followed: its .catch logs an
\* error and touches nothing else.
Cleanup ==
    /\ effects' = [effects EXCEPT ![cur].destroyed = TRUE]
    /\ listeners' = listeners \ {cur}
    /\ moduleStoreCache' = CleanupCache(moduleStoreCache)
    /\ emitted' = emitted \o CleanupEmits(cur)

HasCleanup == cur > 0 /\ effects[cur].moduleId # Undefined /\ ~effects[cur].destroyed

\* First render of the component: the effect body runs, there is no cleanup.
Mount(m) ==
    /\ mounted = "no"
    /\ mounted' = "yes"
    /\ moduleIdProp' = m
    /\ EffectBody(m)
    /\ lastOp' = [NoOp EXCEPT !.op = "effect"]
    /\ UNCHANGED phase
    /\ UNCHANGED logged
    /\ UNCHANGED prodVars

\* moduleId changed and the previous effect returned a cleanup: React runs the
\* cleanup, and the new effect body right after it (EffectAfterCleanup).
ChangeCleanup(m) ==
    /\ mounted = "yes" /\ phase = "idle"
    /\ m # moduleIdProp
    /\ cur < MaxEffects
    /\ HasCleanup
    /\ moduleIdProp' = m
    /\ Cleanup
    /\ phase' = "flush"
    /\ lastOp' = [NoOp EXCEPT !.op = "cleanup", !.before = moduleStoreCache,
                              !.active = effects[cur].moduleId]
    /\ UNCHANGED mounted
    /\ UNCHANGED logged
    /\ UNCHANGED prodVars

EffectAfterCleanup ==
    /\ phase = "flush"
    /\ EffectBody(moduleIdProp)
    /\ phase' = "idle"
    /\ lastOp' = [NoOp EXCEPT !.op = "effect"]
    /\ UNCHANGED <<mounted, moduleIdProp>>
    /\ UNCHANGED logged
    /\ UNCHANGED prodVars

\* moduleId changed from undefined: the previous effect returned nothing.
ChangeNoCleanup(m) ==
    /\ mounted = "yes" /\ phase = "idle"
    /\ m # moduleIdProp
    /\ cur < MaxEffects
    /\ ~HasCleanup
    /\ moduleIdProp' = m
    /\ EffectBody(m)
    /\ lastOp' = [NoOp EXCEPT !.op = "effect"]
    /\ UNCHANGED <<mounted, phase>>
    /\ UNCHANGED logged
    /\ UNCHANGED prodVars

\* The component is removed: the cleanup runs, if there is one.
Unmount ==
    /\ mounted = "yes" /\ phase = "idle"
    /\ mounted' = "gone"
    /\ IF HasCleanup
       THEN /\ Cleanup
            /\ lastOp' = [NoOp EXCEPT !.op = "cleanup", !.before = moduleStoreCache,
                                      !.active = effects[cur].moduleId]
       ELSE /\ UNCHANGED <<effects, listeners, moduleStoreCache, emitted>>
            /\ lastOp' = [NoOp EXCEPT !.op = "unmount"]
    /\ UNCHANGED <<moduleIdProp, phase>>
    /\ UNCHANGED logged
    /\ UNCHANGED prodVars

\* The promise of effect run g's subscribe request resolves with a snapshot.
SubscribeResolved(g, ver) ==
    /\ phase = "idle"
    /\ g \in 1..cur /\ effects[g].req = "pending"
    /\ LET data == [mod |-> effects[g].moduleId, ver |-> ver] IN
       /\ moduleStoreCache' = subscribeThen(g, data, moduleStoreCache)
       /\ lastOp' = [op |-> "response", gen |-> g, msg |-> effects[g].moduleId,
                     data |-> data, destroyed |-> effects[g].destroyed,
                     active |-> ActiveId, before |-> moduleStoreCache]
    /\ effects' = [effects EXCEPT ![g].req = "resolved"]
    /\ UNCHANGED <<mounted, moduleIdProp, phase, listeners, emitted>>
    /\ UNCHANGED logged
    /\ UNCHANGED prodVars

\* seeded fault: a catch that subscribes again
subscribeCatchEmits_Retry(g) ==
    <<[event |-> "subscribe", moduleId |-> effects[g].moduleId]>>

\* what the .catch of the subscribe promise emits: nothing
subscribeCatchEmits(g) == <<>>

\* The promise rejects:
\* .catch((err) => { console.error('Failed to subscribe to module store', err) })
SubscribeRejected(g) ==
    /\ phase = "idle"
    /\ g \in 1..cur /\ effects[g].req = "pending"
    /\ effects' = [effects EXCEPT ![g].req = "rejected"]
    /\ emitted' = emitted \o subscribeCatchEmits(g)
    /\ logged' = logged + 1
    /\ lastOp' = [NoOp EXCEPT !.op = "rejected", !.gen = g, !.before = moduleStoreCache,
                              !.destroyed = effects[g].destroyed, !.active = ActiveId]
    /\ UNCHANGED <<mounted, moduleIdProp, phase, listeners, moduleStoreCache>>
    /\ UNCHANGED prodVars

\* The socket calls every registered 'modules-store:info:data' listener in turn.
RECURSIVE Dispatch(_, _, _, _)
Dispatch(gs, msgModuleId, data, cache) ==
    IF gs = {} THEN cache
    ELSE LET g == CHOOSE x \in gs : \A y \in gs : x <= y
         IN Dispatch(gs \ {g}, msgModuleId, data, updateCache(g, msgModuleId, data, cache))

\* The server pushes 'modules-store:info:data' (msgModuleId, data).
Push(msgModuleId, ver) ==
    /\ phase = "idle"
    /\ LET data == [mod |-> msgModuleId, ver |-> ver] IN
       /\ moduleStoreCache' = Dispatch(listeners, msgModuleId, data, moduleStoreCache)
       /\ lastOp' = [op |-> "push", gen |-> 0, msg |-> msgModuleId, data |-> data,
                     destroyed |-> (listeners = {}), active |-> ActiveId,
                     before |-> moduleStoreCache]
    /\ UNCHANGED <<mounted, moduleIdProp, phase, effects, listeners, emitted>>
    /\ UNCHANGED logged
    /\ UNCHANGED prodVars

NextSub ==
    \/ \E m \in ModuleIdArgs : Mount(m)
    \/ \E m \in ModuleIdArgs : ChangeCleanup(m)
    \/ EffectAfterCleanup
    \/ \E m \in ModuleIdArgs : ChangeNoCleanup(m)
    \/ Unmount
    \/ \E g \in 1..MaxEffects, v \in 1..MaxVer : SubscribeResolved(g, v)
    \/ \E g \in 1..MaxEffects : SubscribeRejected(g)
    \/ \E m \in ModuleIds, v \in 1..MaxVer : Push(m, v)


(***************************************************************************)
(* The ModuleInfoStore the panels read                                     *)
(***************************************************************************)
\* products a module may list (most, per module) and products in the store
\* and the installed modules together (most)
MaxProducts == 2
MaxTotalProducts == 3
MaxVisModules == 1

\* module ids and product names; "x" with product "p-q" and "x-p" with product
\* "q" are different (id, product) pairs
ProductModuleIds == << <<"x">>, <<"x", "-", "p">> >>
ProductNames == << <<"p">>, <<"q">>, <<"p", "-", "q">> >>

\* null for installedInfo / storeInfo
NoInfo == [null |-> TRUE]

\* The lists a module's products field may hold: the product names picked by
\* a set of positions, in the order of ProductNames.
RECURSIVE PickInOrder(_, _)
PickInOrder(picked, i) ==
    IF i > Len(ProductNames) THEN <<>>
    ELSE (IF i \in picked THEN <<ProductNames[i]>> ELSE <<>>) \o PickInOrder(picked, i + 1)

ProductLists ==
    {PickInOrder(picked, 1) : picked \in {q \in SUBSET (1..Len(ProductNames)) :
                                              Cardinality(q) <= MaxProducts}}

\* baseInfo of an installed module with this id (NewClientModuleInfo.baseInfo)
InstalledName(id) == IF id = <<"x">> THEN <<"F", "o", "o">> ELSE <<"B", "a", "z">>
StoreName(id) == IF id = <<"x">> THEN <<"F", "o", "o", "B", "a", "r">> ELSE <<"B", "a", "z">>
Manufacturer(id) == IF id = <<"x">> THEN <<"M">> ELSE <<"N">>
Shortname(id) == IF id = <<"x">> THEN <<"f">> ELSE <<"b">>
\* keywords?: string[]  (absent for "x-p")
HasKeywords(id) == id = <<"x">>
Keywords(id) == IF id = <<"x">> THEN << <<"k">>, <<"w">> >> ELSE <<>>
\* The store catalog of module "x" carries other texts than the installed
\* module's manifest.
StoreManufacturer(id) == <<"N">>
StoreShortname(id) == <<"b">>
StoreKeywords(id) == IF id = <<"x">> THEN << <<"k">> >> ELSE <<>>

\* An installed module (a value of modules.modules).  productsOk = FALSE is
\* a malformed entry: baseInfo.products is not iterable.
InstalledModules(id) ==
    {[id |-> id, products |-> l, productsOk |-> TRUE, name |-> InstalledName(id),
      manufacturer |-> Manufacturer(id), shortname |-> Shortname(id),
      hasKeywords |-> HasKeywords(id), keywords |-> Keywords(id),
      installedVersions |-> n, source |-> "installed"] : l \in ProductLists, n \in {0, 1}}
    \cup
    {[id |-> id, products |-> <<>>, productsOk |-> FALSE, name |-> InstalledName(id),
      manufacturer |-> Manufacturer(id), shortname |-> Shortname(id),
      hasKeywords |-> HasKeywords(id), keywords |-> Keywords(id),
      installedVersions |-> 1, source |-> "installed"]}

\* A name that is not a string (a malformed entry): the ranker cannot read it.
BadText == <<"#object">>

\* A store catalog entry (a value of modules.storeList).
StoreEntries(id) ==
    {[id |-> id, products |-> l, productsOk |-> TRUE, name |-> StoreName(id),
      manufacturer |-> StoreManufacturer(id), shortname |-> StoreShortname(id),
      hasKeywords |-> HasKeywords(id), keywords |-> StoreKeywords(id),
      source |-> "store"] : l \in ProductLists}
    \cup
    {[id |-> id, products |-> <<ProductNames[1]>>, productsOk |-> TRUE,
      name |-> BadText,
      manufacturer |-> StoreManufacturer(id), shortname |-> StoreShortname(id),
      hasKeywords |-> HasKeywords(id), keywords |-> StoreKeywords(id),
      source |-> "store"]}

\* The values() of a Map keyed by module id: at most one entry per id.
EntriesOf(source, id) ==
    IF source = "installed" THEN InstalledModules(id) ELSE StoreEntries(id)

RECURSIVE MapValues(_, _)
MapValues(source, i) ==
    IF i > Len(ProductModuleIds) THEN {<<>>}
    ELSE {head \o rest : head \in {<<>>} \cup {<<e>> : e \in EntriesOf(source, ProductModuleIds[i])},
                         rest \in MapValues(source, i + 1)}

RECURSIVE NumProducts(_)
NumProducts(infos) ==
    IF infos = <<>> THEN 0 ELSE Len(Head(infos).products) + NumProducts(Tail(infos))

ModuleInfoStores ==
    {st \in [installed : MapValues("installed", 1), storeList : MapValues("store", 1)] :
        NumProducts(st.installed) + NumProducts(st.storeList) <= MaxTotalProducts}

(***************************************************************************)
(* useAllConnectionProducts                                                *)
(***************************************************************************)
\* `${moduleInfo.id}-${product}`
Key(id, product) == id \o <<"-">> \o product

\* keywords?.join(';') ?? ''
RECURSIVE Join(_)
Join(words) ==
    IF words = <<>> THEN <<>>
    ELSE IF Len(words) = 1 THEN words[1]
    ELSE words[1] \o <<";">> \o Join(Tail(words))

JoinKeywords(info) == IF info.hasKeywords THEN Join(info.keywords) ELSE <<>>

\* seeded fault: an existing property is never found
Lookup_NeverFound(allProducts, key) == 0

\* The property of allProducts with this key, 0 when there is none.
Lookup(allProducts, key) ==
    IF \E i \in DOMAIN allProducts : allProducts[i].key = key
    THEN CHOOSE i \in DOMAIN allProducts : allProducts[i].key = key
    ELSE 0

\* allProducts[key] = value: a new property goes last, an existing one keeps
\* its place.
SetProperty(allProducts, key, value) ==
    LET i == Lookup(allProducts, key) IN
    IF i = 0 THEN Append(allProducts, [key |-> key, value |-> value])
    ELSE [allProducts EXCEPT ![i].value = value]

\* body of the loop over the installed modules' products
InstalledStep(allProducts, moduleInfo, product) ==
    SetProperty(allProducts, Key(moduleInfo.id, product),
                [id |-> moduleInfo.id, installedInfo |-> moduleInfo, storeInfo |-> NoInfo,
                 product |-> product, keywords |-> JoinKeywords(moduleInfo),
                 name |-> moduleInfo.name, manufacturer |-> moduleInfo.manufacturer,
                 shortname |-> moduleInfo.shortname])

\* seeded fault: a store entry that meets an existing key replaces the record
StoreStep_Overwrite(allProducts, moduleInfo, product) ==
    SetProperty(allProducts, Key(moduleInfo.id, product),
                [id |-> moduleInfo.id,
                 installedInfo |-> LET i == Lookup(allProducts, Key(moduleInfo.id, product))
                                   IN IF i = 0 THEN NoInfo
                                      ELSE allProducts[i].value.installedInfo,
                 storeInfo |-> moduleInfo,
                 product |-> product, keywords |-> JoinKeywords(moduleInfo),
                 name |-> moduleInfo.name, manufacturer |-> moduleInfo.manufacturer,
                 shortname |-> moduleInfo.shortname])

\* body of the loop over the store modules' products
StoreStep(allProducts, moduleInfo, product) ==
    LET key == Key(moduleInfo.id, product)
        i == Lookup(allProducts, key)
    IN IF i # 0
       THEN [allProducts EXCEPT ![i].value.storeInfo = moduleInfo]
       ELSE SetProperty(allProducts, key,
                [id |-> moduleInfo.id, installedInfo |-> NoInfo, storeInfo |-> moduleInfo,
                 product |-> product, keywords |-> JoinKeywords(moduleInfo),
                 name |-> moduleInfo.name, manufacturer |-> moduleInfo.manufacturer,
                 shortname |-> moduleInfo.shortname])

\* The two nested loops: infos from index m, the products of infos[m] from p.
LoopStep(loop, allProducts, moduleInfo, product) ==
    IF loop = "installed" THEN InstalledStep(allProducts, moduleInfo, product)
    ELSE StoreStep(allProducts, moduleInfo, product)

RECURSIVE FoldProducts(_, _, _, _, _)
FoldProducts(loop, infos, m, p, allProducts) ==
    IF m > Len(infos) THEN allProducts
    ELSE IF p > Len(infos[m].products) THEN FoldProducts(loop, infos, m + 1, 1, allProducts)
    ELSE FoldProducts(loop, infos, m, p + 1,
                      LoopStep(loop, allProducts, infos[m], infos[m].products[p]))

\* Object.values(allProducts)
ObjectValues(allProducts) == [i \in DOMAIN allProducts |-> allProducts[i].value]

\* for (const product of moduleInfo.baseInfo.products) throws a TypeError when
\* products is not iterable.
MergeThrows(store) ==
    \/ \E i \in DOMAIN store.installed : ~store.installed[i].productsOk
    \/ \E i \in DOMAIN store.storeList : ~store.storeList[i].productsOk

\* The value useAllConnectionProducts returns when it does not throw.
useAllConnectionProducts(store) ==
    ObjectValues(FoldProducts("store", store.storeList, 1, 1,
                     FoldProducts("installed", store.installed, 1, 1, <<>>)))


(***************************************************************************)
(* filterProducts and the fuzzy ranker it delegates to                     *)
(***************************************************************************)
\* the search texts typed into the SearchBox
Queries == {<<>>, <<"f", "o", "o">>, <<"z", "z">>, <<"q">>}

ToLower(c) ==
    CASE c = "F" -> "f" [] c = "B" -> "b" [] c = "M" -> "m" [] c = "N" -> "n"
      [] OTHER -> c

LowerCase(str) == [i \in DOMAIN str |-> ToLower(str[i])]

\* The characters of search occur in target, in this order.
RECURSIVE IsSubsequence(_, _)
IsSubsequence(search, target) ==
    IF search = <<>> THEN TRUE
    ELSE IF target = <<>> THEN FALSE
    ELSE IF Head(search) = Head(target) THEN IsSubsequence(Tail(search), Tail(target))
    ELSE IsSubsequence(search, Tail(target))

\* The ranker scores a target for a search: a hit when the lower-cased search
\* is a subsequence of the lower-cased target (an empty target never hits).
FuzzyMatch(search, target) ==
    target # <<>> /\ IsSubsequence(LowerCase(search), LowerCase(target))

\* The ranker throws on a target field that is not text.
RankerThrows(targets, keys) ==
    \E i \in DOMAIN targets : \E k \in keys : targets[i][k] = BadText

\* fuzzysort's go(search, targets, {keys, threshold}), mapped to the objects:
\* the targets with a hit on one of the keys; an empty search has no results.
\* The threshold of -10000 accepts every hit.  The result is ordered by score,
\* which is not modelled: the hits are kept in the order of targets.
fuzzySearch(search, targets, keys) ==
    IF search = <<>> THEN <<>>
    ELSE SelectSeq(targets, LAMBDA p : \E k \in keys : FuzzyMatch(search, p[k]))

FilterKeys == {"product", "name", "manufacturer", "keywords"}

\* seeded fault: the empty filter handed to the ranker like any other
filterProducts_AlwaysRank(allProducts, flt) ==
    fuzzySearch(flt, allProducts, FilterKeys)

\* seeded fault: the ranker's hits are ignored
filterProducts_NoFilter(allProducts, flt) == allProducts

\* filterProducts(allProducts, filter), when it does not throw
filterProducts(allProducts, flt) ==
    IF flt = <<>> THEN allProducts
    ELSE fuzzySearch(flt, allProducts, FilterKeys)

\* how often filterProducts calls the ranker
RankerCalls(allProducts, flt) == IF flt = <<>> THEN 0 ELSE 1

filterProductsThrows(allProducts, flt) ==
    flt # <<>> /\ RankerThrows(allProducts, FilterKeys)

(***************************************************************************)
(* AddConnectionsPanel and ModulesList: one render                         *)
(***************************************************************************)
CharCode(c) ==
    CASE c = "#object" -> 35 [] c = "-" -> 45 [] c = ";" -> 59
      [] c = "a" -> 97 [] c = "b" -> 98 [] c = "f" -> 102 [] c = "k" -> 107
      [] c = "m" -> 109 [] c = "n" -> 110 [] c = "o" -> 111 [] c = "p" -> 112
      [] c = "q" -> 113 [] c = "r" -> 114 [] c = "w" -> 119 [] c = "x" -> 120
      [] c = "z" -> 122 [] OTHER -> 0

\* aName < bName on strings
RECURSIVE StrLess(_, _)
StrLess(a, b) ==
    IF b = <<>> THEN FALSE
    ELSE IF a = <<>> THEN TRUE
    ELSE IF CharCode(Head(a)) # CharCode(Head(b)) THEN CharCode(Head(a)) < CharCode(Head(b))
    ELSE StrLess(Tail(a), Tail(b))

\* Object.entries(candidatesObj).sort(by lower-cased key): a stable sort
RECURSIVE InsertSorted(_, _)
InsertSorted(sorted, entry) ==
    IF sorted = <<>> THEN <<entry>>
    ELSE IF StrLess(LowerCase(entry.key), LowerCase(Head(sorted).key))
         THEN <<entry>> \o sorted
         ELSE <<Head(sorted)>> \o InsertSorted(Tail(sorted), entry)

RECURSIVE SortEntries(_)
SortEntries(entriesSeq) ==
    IF entriesSeq = <<>> THEN <<>>
    ELSE InsertSorted(SortEntries(SubSeq(entriesSeq, 1, Len(entriesSeq) - 1)),
                      entriesSeq[Len(entriesSeq)])

\* for (const moduleInfo of searchResults) candidatesObj[moduleInfo[keyField]] = <entry>
RECURSIVE CandidatesObj(_, _, _, _)
CandidatesObj(searchResults, keyField, i, candidatesObj) ==
    IF i > Len(searchResults) THEN candidatesObj
    ELSE CandidatesObj(searchResults, keyField, i + 1,
                       SetProperty(candidatesObj, searchResults[i][keyField], searchResults[i]))

\* the try block: the entries rendered for searchResults
Candidates(searchResults, keyField, flt) ==
    LET candidatesObj == CandidatesObj(searchResults, keyField, 1, <<>>)
    IN ObjectValues(IF flt = <<>> THEN SortEntries(candidatesObj) ELSE candidatesObj)

\* allProducts.filter(...) of AddConnectionsPanel
AddTypeProducts(allProducts, vis) ==
    SelectSeq(allProducts, LAMBDA p : p.installedInfo # NoInfo \/ vis.available)

\* seeded fault: the ModulesList filter without the installed-versions test
ListTypeProducts_NoVersionCheck(allProducts, vis) ==
    SelectSeq(allProducts, LAMBDA p :
        \/ p.installedInfo # NoInfo /\ vis.installed
        \/ p.storeInfo # NoInfo /\ vis.available)

\* allProducts.filter(...) of ModulesList
ListTypeProducts(allProducts, vis) ==
    SelectSeq(allProducts, LAMBDA p :
        \/ p.installedInfo # NoInfo /\ p.installedInfo.installedVersions > 0 /\ vis.installed
        \/ p.storeInfo # NoInfo /\ vis.available)

TypeProducts(pnl, allProducts, vis) ==
    IF pnl = "AddConnectionsPanel" THEN AddTypeProducts(allProducts, vis)
    ELSE ListTypeProducts(allProducts, vis)

\* candidatesObj is keyed by name in AddConnectionsPanel, by id in ModulesList
CandidateKey(pnl) == IF pnl = "AddConnectionsPanel" THEN "name" ELSE "id"

\* The render threw: nothing of the panel is shown.
CrashedView ==
    [crashed |-> TRUE, banner |-> FALSE, allProducts |-> <<>>, typeProducts |-> <<>>,
     searchResults |-> <<>>, candidates |-> <<>>, rankerCalls |-> 0]

\* the end of the try block: one candidate entry per key of candidatesObj
WithResults(pnl, allProducts, typeProducts, flt, searchResults) ==
    [crashed |-> FALSE, banner |-> FALSE, allProducts |-> allProducts,
     typeProducts |-> typeProducts, searchResults |-> searchResults,
     candidates |-> Candidates(searchResults, CandidateKey(pnl), flt),
     rankerCalls |-> RankerCalls(typeProducts, flt)]

\* try { filterProducts ... } catch { candidates = [the warning banner] }
TryBlock(pnl, allProducts, typeProducts, flt) ==
    IF filterProductsThrows(typeProducts, flt)
    THEN [crashed |-> FALSE, banner |-> TRUE, allProducts |-> allProducts,
          typeProducts |-> typeProducts, searchResults |-> <<>>,
          candidates |-> <<>>, rankerCalls |-> RankerCalls(typeProducts, flt)]
    ELSE WithResults(pnl, allProducts, typeProducts, flt, filterProducts(typeProducts, flt))

\* One render of the panel: the merge and the visibility filter run before
\* the try block, outside it; an error thrown there leaves the render.
Render(pnl, store, flt, vis) ==
    IF MergeThrows(store) THEN CrashedView
    ELSE LET allProducts == useAllConnectionProducts(store)
         IN TryBlock(pnl, allProducts, TypeProducts(pnl, allProducts, vis), flt)

Panels == {"AddConnectionsPanel", "ModulesList"}

\* the defaults passed to useTableVisibilityHelper
DefaultVisibility(pnl) ==
    IF pnl = "AddConnectionsPanel" THEN [installed |-> TRUE, available |-> TRUE]
    ELSE [installed |-> TRUE, available |-> FALSE]

\* the flags the panel shows a VisibilityButton for
VisibilityKeys(pnl) ==
    IF pnl = "AddConnectionsPanel" THEN {"available"} ELSE {"installed", "available"}

\* toggleVisibility(key, forceState?) of the visibility helper: without
\* forceState the flag is inverted, with it the flag is set to it.
\* forceState is "undefined", "true" or "false".
toggleVisibility(vis, key, forceState) ==
    [vis EXCEPT ![key] = IF forceState = "undefined" THEN ~vis[key]
                         ELSE forceState = "true"]

\* seeded fault: the link handler calling the helper without forceState
includeStoreModules_NoForce(vis) == toggleVisibility(vis, "available", "undefined")

\* includeStoreModules: typeFilter.toggleVisibility('available', true)
includeStoreModules(vis) == toggleVisibility(vis, "available", "true")

\* The 'Click here to include modules from the store' link is rendered.
LinkShown ==
    /\ ~view.crashed /\ ~view.banner
    /\ Len(view.candidates) = 0 /\ Len(view.allProducts) > 0
    /\ panel = "ModulesList" => filter # <<>>
    /\ ~visibility.available

\* The record of toggleVisibility calls: off, or the last two calls.
NotRecording == [on |-> FALSE, calls |-> <<>>]
Recording == [on |-> TRUE, calls |-> <<>>]
LastTwo(calls) == IF Len(calls) > 2 THEN Tail(calls) ELSE calls
Recorded(key, forceState, newVis) ==
    IF ~toggleLog.on THEN toggleLog
    ELSE [toggleLog EXCEPT !.calls =
             LastTwo(Append(@, [key |-> key, forceState |-> forceState,
                                from |-> visibility[key], to |-> newVis[key]]))]

InitProducts ==
    /\ panel \in Panels
    /\ modules \in ModuleInfoStores
    /\ filter = <<>>
    /\ visibility = DefaultVisibility(panel)
    /\ view = Render(panel, modules, filter, visibility)
    /\ toggleLog = NotRecording

\* typing in the SearchBox: setFilter, then the panel renders again
SetFilter(q) ==
    /\ ~view.crashed
    /\ q # filter
    /\ filter' = q
    /\ view' = Render(panel, modules, q, visibility)
    /\ UNCHANGED <<panel, modules, visibility, toggleLog>>
    /\ UNCHANGED subVars

\* a click on a VisibilityButton, then the panel renders again
ToggleVisibility(key) ==
    /\ ~view.crashed
    /\ key \in VisibilityKeys(panel)
    /\ visibility' = toggleVisibility(visibility, key, "undefined")
    /\ view' = Render(panel, modules, filter, visibility')
    /\ toggleLog' = Recorded(key, "undefined", visibility')
    /\ UNCHANGED <<panel, modules, filter>>
    /\ UNCHANGED subVars

\* a click on the 'include modules from the store' link, then the panel
\* renders again
IncludeStoreModules ==
    /\ LinkShown
    /\ visibility' = includeStoreModules(visibility)
    /\ view' = Render(panel, modules, filter, visibility')
    /\ toggleLog' = Recorded("available", "true", visibility')
    /\ UNCHANGED <<panel, modules, filter>>
    /\ UNCHANGED subVars

NextProducts ==
    \/ \E q \in Queries : SetFilter(q)
    \/ \E key \in {"installed", "available"} : ToggleVisibility(key)
    \/ IncludeStoreModules

InitProductsSpec == InitSub /\ InitProducts
SpecProducts == InitProductsSpec /\ [][NextProducts]_vars

\* The panels over the stores of at most MaxVisModules modules, with the
\* toggleVisibility calls recorded.
VisibilityStores ==
    {st \in ModuleInfoStores : Len(st.installed) + Len(st.storeList) <= MaxVisModules}

InitVisibility ==
    /\ panel \in Panels
    /\ modules \in VisibilityStores
    /\ filter = <<>>
    /\ visibility = DefaultVisibility(panel)
    /\ view = Render(panel, modules, filter, visibility)
    /\ toggleLog = Recording

InitVisibilitySpec == InitSub /\ InitVisibility
SpecVisibility == InitVisibilitySpec /\ [][NextProducts]_vars

\* the product panels are not part of this specification
InitProdIdle ==
    /\ panel = "none"
    /\ modules = [installed |-> <<>>, storeList |-> <<>>]
    /\ filter = <<>>
    /\ visibility = [installed |-> TRUE, available |-> TRUE]
    /\ view = [rendered |-> FALSE]
    /\ toggleLog = NotRecording

Init == InitSub /\ InitProdIdle
Next == NextSub
Spec == Init /\ [][Next]_vars

(***************************************************************************)
(* Claims about useModuleStoreInfo, checked under Spec                     *)
(***************************************************************************)
NumEmitted(ev) == Cardinality({i \in DOMAIN emitted : emitted[i].event = ev})
NumSubscribing == Cardinality({g \in DOMAIN effects : effects[g].moduleId # Undefined})
LastEmitted == emitted[Len(emitted)]

\* C1: a subscribe response that belongs to an effect run already torn down
\* (module switched away, or unmounted) leaves the cache as it was, and the
\* cache only ever holds null or a snapshot delivered for the module id the
\* hook is subscribed for now.
C1_StaleResponseDiscarded ==
    /\ moduleStoreCache # Null => (HasLive /\ moduleStoreCache.mod = ActiveId)
    /\ (lastOp.op = "response" /\ lastOp.destroyed) => moduleStoreCache = lastOp.before

\* A's response arrives after the switch to B, while B's snapshot is shown.
C1_Witness ==
    /\ lastOp.op = "response" /\ lastOp.destroyed /\ lastOp.msg = "A"
    /\ ActiveId = "B"
    /\ moduleStoreCache # Null /\ moduleStoreCache.mod = "B"

\* C5: when the cleanup of a subscribed effect has run (module id change or
\* unmount), the unsubscribe for the old module id is the last request emitted,
\* the cache is null and the subscribe of the next effect run is not yet
\* emitted; a change away from a subscribed module id always goes through that
\* state, whatever became of the old subscribe request.
C5_UnsubscribeAndResetFirst ==
    /\ lastOp.op = "cleanup" =>
          /\ moduleStoreCache = Null
          /\ emitted # <<>>
          /\ LastEmitted = [event |-> "unsubscribe", moduleId |-> lastOp.active]
          /\ effects[cur].destroyed /\ effects[cur].moduleId = lastOp.active
          /\ NumEmitted("subscribe") = NumSubscribing
    /\ phase = "flush" => lastOp.op = "cleanup"
    /\ \A i \in 2..Len(emitted) :
          emitted[i].event = "subscribe" => emitted[i-1].event = "unsubscribe"
    /\ mounted = "gone" => (moduleStoreCache = Null /\ ~HasLive)

\* The module id changes while the old subscribe is still pending and a pushed
\* snapshot is cached.
C5_Witness ==
    /\ phase = "flush" /\ lastOp.op = "cleanup" /\ lastOp.before # Null
    /\ effects[cur].req = "pending"
    /\ moduleIdProp \in ModuleIds

\* C6: subscribes emitted minus unsubscribes emitted is 0 or 1, and every
\* unsubscribe directly follows, and carries the module id of, the subscribe
\* it closes.
C6_AtMostOneSubscription ==
    /\ NumEmitted("subscribe") - NumEmitted("unsubscribe") \in {0, 1}
    /\ \A i \in DOMAIN emitted :
          emitted[i].event = "unsubscribe" =>
             /\ i > 1
             /\ emitted[i-1] = [event |-> "subscribe", moduleId |-> emitted[i].moduleId]

\* A, then undefined, then B, then unmount: two subscriptions opened and closed.
C6_Witness ==
    /\ mounted = "gone"
    /\ Len(emitted) = 4
    /\ \E g \in DOMAIN effects : effects[g].moduleId = Undefined

\* C7: a push for a module id other than the one subscribed for, or a push
\* when no effect is live, leaves the cache as it was; a push for the module
\* id subscribed for replaces the cache by the pushed snapshot.
C7_PushOnlyForActiveModule ==
    lastOp.op = "push" =>
       moduleStoreCache = IF lastOp.active # Undefined /\ lastOp.msg = lastOp.active
                          THEN lastOp.data
                          ELSE lastOp.before

\* A push for the other module arrives while a snapshot is cached.
C7_Witness ==
    /\ lastOp.op = "push"
    /\ lastOp.active # Undefined /\ lastOp.msg # lastOp.active
    /\ lastOp.before # Null /\ moduleStoreCache = lastOp.before

\* The subscribe request of the live effect run has failed / is not yet answered.
LiveSubscribeFailed == HasLive /\ effects[cur].req = "rejected"
LiveSubscribePending == HasLive /\ effects[cur].req = "pending"
\* This step is the rejection of a subscribe request.
IsRejectionStep ==
    \E g \in DOMAIN effects : effects[g].req = "pending" /\ effects'[g].req = "rejected"
\* This step is the successful response to the live effect run's subscribe.
IsLiveResponseStep ==
    LiveSubscribePending /\ effects'[cur].req = "resolved"
\* This step ran the push handler for the module id subscribed for.
IsMatchingPushStep ==
    /\ lastOp'.op = "push" /\ lastOp'.msg = ActiveId
    /\ moduleStoreCache' = lastOp'.data

\* C11 as stated: once the subscribe request of the live effect has failed,
\* the cache is null for as long as the module id stays the same.
C11_FailedStaysNull ==
    LiveSubscribeFailed => moduleStoreCache = Null

C11_Step ==
    /\ IsRejectionStep =>
          /\ logged' = logged + 1
          /\ UNCHANGED <<emitted, moduleStoreCache, listeners, mounted, moduleIdProp>>
    /\ (LiveSubscribeFailed /\ moduleStoreCache = Null /\ moduleStoreCache' # Null) =>
          IsMatchingPushStep

\* C11 (amended): the failure of a subscribe request is logged once and
\* changes nothing else: no request is emitted, the listener stays
\* registered and the cache is left as it was. After the failure of the live
\* effect's request a null cache stays null until the module id changes,
\* unless a push for the subscribed module id arrives, whose snapshot is
\* then cached.
C11_FailureOnlyLogged == [][C11_Step]_vars

\* The subscribe for the active module failed, and a later push for that
\* module filled the cache.
C11_Witness ==
    /\ LiveSubscribeFailed /\ logged > 0
    /\ lastOp.op = "push" /\ lastOp.msg = ActiveId /\ lastOp.before = Null
    /\ moduleStoreCache # Null

\* C16 as stated: while the subscribe request of the live effect is
\* unanswered, the cache is null.
C16_PendingIsNull ==
    LiveSubscribePending => moduleStoreCache = Null

C16_Step ==
    /\ lastOp'.op = "effect" => moduleStoreCache' = Null
    /\ (LiveSubscribePending /\ LiveSubscribePending' /\ cur' = cur
          /\ moduleStoreCache' # moduleStoreCache) => IsMatchingPushStep
    /\ IsLiveResponseStep =>
          /\ lastOp'.op = "response"
          /\ moduleStoreCache' = lastOp'.data
          /\ moduleStoreCache'.mod = ActiveId

\* C16 (amended): the cache is null when the subscribe request is emitted;
\* until the response is delivered only a push for the subscribed module id
\* changes it (to the pushed snapshot), and the successful response replaces
\* whatever is cached then by the snapshot it carries.
C16_PendingNullUnlessPushed == [][C16_Step]_vars

\* A push for the subscribed module has filled the cache before the response.
C16_Witness ==
    /\ LiveSubscribePending
    /\ lastOp.op = "push" /\ lastOp.msg = ActiveId /\ lastOp.before = Null
    /\ moduleStoreCache # Null /\ moduleStoreCache.mod = ActiveId

(***************************************************************************)
(* Claims about the merge, the filter and the panels, checked under        *)
(* SpecProducts                                                            *)
(***************************************************************************)
\* the (module id, product) pairs a collection lists
PairsOf(infos) ==
    UNION {{<<infos[i].id, infos[i].products[j]>> : j \in DOMAIN infos[i].products} :
              i \in DOMAIN infos}

InstalledPairs == PairsOf(modules.installed)
StorePairs == PairsOf(modules.storeList)
Merged == view.allProducts
PairOfProduct(p) == <<p.id, p.product>>

\* C2: when no (module id, product) pair is both installed and in the store,
\* the merged list has one entry per installed product plus one per store
\* product.
C2_DisjointCountIsSum ==
    (~view.crashed /\ InstalledPairs \cap StorePairs = {}) =>
        Len(Merged) = NumProducts(modules.installed) + NumProducts(modules.storeList)

\* C3: the merged list has exactly one record per (module id, product) pair of
\* the union; the record has installedInfo exactly when the pair is installed
\* and storeInfo exactly when the pair is in the store.
C3_OneRecordPerPair ==
    ~view.crashed =>
        /\ Len(Merged) = Cardinality(InstalledPairs \cup StorePairs)
        /\ \A pr \in InstalledPairs \cup StorePairs :
              \E i \in DOMAIN Merged :
                 /\ PairOfProduct(Merged[i]) = pr
                 /\ (Merged[i].installedInfo # NoInfo) <=> (pr \in InstalledPairs)
                 /\ (Merged[i].storeInfo # NoInfo) <=> (pr \in StorePairs)

\* C4: every merged record has installedInfo or storeInfo, and no two records
\* have the same (id, product).
C4_InfoPresentAndUnique ==
    ~view.crashed =>
        /\ \A i \in DOMAIN Merged :
              Merged[i].installedInfo # NoInfo \/ Merged[i].storeInfo # NoInfo
        /\ \A i, j \in DOMAIN Merged :
              PairOfProduct(Merged[i]) = PairOfProduct(Merged[j]) => i = j

\* The same pair is installed and in the store, next to a store-only product.
C4_Witness ==
    /\ ~view.crashed
    /\ InstalledPairs \cap StorePairs # {}
    /\ Len(Merged) >= 2
    /\ \E i \in DOMAIN Merged :
          Merged[i].installedInfo # NoInfo /\ Merged[i].storeInfo # NoInfo
    /\ \E i \in DOMAIN Merged : Merged[i].installedInfo = NoInfo

Range(seq) == {seq[i] : i \in DOMAIN seq}

\* C13: a merged record that has installedInfo carries the id, name,
\* manufacturer, shortname and keywords of that installed module and one of
\* its products, whether or not a store entry was folded onto it and whatever
\* texts the store entry carries; its storeInfo, when set, is a store entry
\* with the same key; and the records of installed products come before the
\* store-only records.
C13_StoreFoldChangesOnlyStoreInfo ==
    ~view.crashed =>
        /\ \A i \in DOMAIN Merged :
              Merged[i].installedInfo # NoInfo =>
                 /\ Merged[i].installedInfo \in Range(modules.installed)
                 /\ Merged[i].id = Merged[i].installedInfo.id
                 /\ Merged[i].product \in Range(Merged[i].installedInfo.products)
                 /\ Merged[i].name = Merged[i].installedInfo.name
                 /\ Merged[i].manufacturer = Merged[i].installedInfo.manufacturer
                 /\ Merged[i].shortname = Merged[i].installedInfo.shortname
                 /\ Merged[i].keywords = JoinKeywords(Merged[i].installedInfo)
        /\ \A i \in DOMAIN Merged :
              Merged[i].storeInfo # NoInfo =>
                 /\ Merged[i].storeInfo \in Range(modules.storeList)
                 /\ \E pr \in Range(Merged[i].storeInfo.products) :
                       Key(Merged[i].storeInfo.id, pr) = Key(Merged[i].id, Merged[i].product)
        /\ \A i, j \in DOMAIN Merged :
              (Merged[i].installedInfo # NoInfo /\ Merged[j].installedInfo = NoInfo) => i < j

\* A store entry with another name, manufacturer, shortname and keywords was
\* folded onto the record of an installed product.
C13_Witness ==
    /\ ~view.crashed
    /\ \E i \in DOMAIN Merged :
          /\ Merged[i].installedInfo # NoInfo /\ Merged[i].storeInfo # NoInfo
          /\ Merged[i].storeInfo.name # Merged[i].name
          /\ Merged[i].storeInfo.manufacturer # Merged[i].manufacturer
          /\ Merged[i].storeInfo.shortname # Merged[i].shortname
          /\ JoinKeywords(Merged[i].storeInfo) # Merged[i].keywords

\* The condition C14 gives for a merged product to be handed to filterProducts.
PassesFlags(p) ==
    IF panel = "AddConnectionsPanel"
    THEN p.installedInfo # NoInfo \/ visibility.available
    ELSE \/ p.installedInfo # NoInfo /\ p.installedInfo.installedVersions >= 1
            /\ visibility.installed
         \/ p.storeInfo # NoInfo /\ visibility.available

\* C14: the list handed to filterProducts holds exactly the merged products
\* that satisfy the panel's flag condition, each once; in AddConnectionsPanel
\* every product with installedInfo is in it in every flag state.
C14_FlagsDecideTypeProducts ==
    ~view.crashed =>
        /\ \A i \in DOMAIN Merged :
              (\E j \in DOMAIN view.typeProducts : view.typeProducts[j] = Merged[i])
                  <=> PassesFlags(Merged[i])
        /\ \A j \in DOMAIN view.typeProducts : view.typeProducts[j] \in Range(Merged)
        /\ \A j, k \in DOMAIN view.typeProducts :
              view.typeProducts[j] = view.typeProducts[k] => j = k
        /\ panel = "AddConnectionsPanel" =>
              \A i \in DOMAIN Merged :
                 Merged[i].installedInfo # NoInfo => Merged[i] \in Range(view.typeProducts)

\* ModulesList after 'available' was switched on: a store product is passed,
\* an installed module without an installed version is held back.
C14_Witness ==
    /\ ~view.crashed /\ panel = "ModulesList"
    /\ visibility.installed /\ visibility.available
    /\ \E i \in DOMAIN Merged :
          /\ Merged[i].installedInfo # NoInfo /\ Merged[i].storeInfo = NoInfo
          /\ Merged[i].installedInfo.installedVersions = 0
          /\ Merged[i] \notin Range(view.typeProducts)
    /\ \E i \in DOMAIN Merged :
          /\ Merged[i].installedInfo = NoInfo
          /\ Merged[i] \in Range(view.typeProducts)

\* C8: with an empty filter the search results are the list handed to
\* filterProducts, element by element, and the ranker is not called.
C8_EmptyFilterIsIdentity ==
    (~view.crashed /\ filter = <<>>) =>
        /\ ~view.banner
        /\ view.searchResults = view.typeProducts
        /\ view.rankerCalls = 0

\* The filter was cleared again over a list of several products, one of them
\* an entry the ranker could not have read.
C8_Witness ==
    /\ ~view.crashed /\ filter = <<>>
    /\ Len(view.typeProducts) >= 2
    /\ view.searchResults = view.typeProducts
    /\ \E i \in DOMAIN view.typeProducts : view.typeProducts[i].name = BadText

\* C9: with a non-empty filter every search result is a product of the list
\* handed to filterProducts with a ranker hit on product, name, manufacturer
\* or keywords; when no product of the list has a hit, there is no result.
HasHit(flt, p) ==
    \/ FuzzyMatch(flt, p.product)
    \/ FuzzyMatch(flt, p.name)
    \/ FuzzyMatch(flt, p.manufacturer)
    \/ FuzzyMatch(flt, p.keywords)

C9_OnlyMatchesReturned ==
    (~view.crashed /\ ~view.banner /\ filter # <<>>) =>
        /\ \A i \in DOMAIN view.searchResults :
              /\ \E j \in DOMAIN view.typeProducts :
                    view.typeProducts[j] = view.searchResults[i]
              /\ HasHit(filter, view.searchResults[i])
        /\ (\A j \in DOMAIN view.typeProducts : ~HasHit(filter, view.typeProducts[j]))
              => view.searchResults = <<>>

\* "foo" over products named "FooBar" and "Baz": only "FooBar" is returned.
C9_Witness ==
    /\ ~view.crashed /\ ~view.banner
    /\ filter = <<"f", "o", "o">>
    /\ Len(view.typeProducts) = 2
    /\ view.typeProducts[1].name = <<"F", "o", "o", "B", "a", "r">>
    /\ view.typeProducts[2].name = <<"B", "a", "z">>
    /\ view.searchResults = <<view.typeProducts[1]>>

\* C10: when the merge or the filter throws, the render does not throw, the
\* warning banner is shown and no candidate is shown.
BuildFails ==
    \/ MergeThrows(modules)
    \/ /\ ~MergeThrows(modules)
       /\ filterProductsThrows(
              TypeProducts(panel, useAllConnectionProducts(modules), visibility), filter)

C10_BuildFailureCaught ==
    BuildFails => (~view.crashed /\ view.banner /\ view.candidates = <<>>)

\* C15: in AddConnectionsPanel, when the candidate list is built, there are
\* as many rendered candidates as search results.
C15_OneCandidatePerResult ==
    (panel = "AddConnectionsPanel" /\ ~view.crashed /\ ~view.banner) =>
        Len(view.candidates) = Len(view.searchResults)

(***************************************************************************)
(* Claims about the visibility flags, checked under SpecVisibility        *)
(***************************************************************************)
Calls == toggleLog.calls
ByButton(c) == c.forceState = "undefined"
ByLink(c) == c.forceState = "true"

\* C12 as stated: calling toggleVisibility(key) twice, or the link's
\* toggleVisibility('available', true) twice, leaves the flags as they were.
C12_TwiceRestores ==
    ~view.crashed =>
        /\ \A key \in VisibilityKeys(panel) :
              toggleVisibility(toggleVisibility(visibility, key, "undefined"),
                               key, "undefined") = visibility
        /\ includeStoreModules(includeStoreModules(visibility)) = visibility

\* C12 (amended): two successive clicks on the VisibilityButton of a flag
\* return the flag to the value it had before the first; the link's call
\* sets 'available' to true and leaves the other flag alone, so calling it
\* twice leaves 'available' true whatever it was, and the link is only there
\* to be clicked while 'available' is false.
C12_ButtonTwiceRestoresLinkSets ==
    /\ \A key \in VisibilityKeys(panel) :
          toggleVisibility(toggleVisibility(visibility, key, "undefined"),
                           key, "undefined") = visibility
    /\ (Len(Calls) = 2 /\ ByButton(Calls[1]) /\ ByButton(Calls[2])
          /\ Calls[1].key = Calls[2].key) =>
             /\ visibility[Calls[1].key] = Calls[1].from
             /\ Calls[1].to = ~Calls[1].from
    /\ Calls # <<>> => visibility[Calls[Len(Calls)].key] = Calls[Len(Calls)].to
    /\ \A i \in DOMAIN Calls :
          ByLink(Calls[i]) =>
             Calls[i].key = "available" /\ ~Calls[i].from /\ Calls[i].to
    /\ ~(Len(Calls) = 2 /\ ByLink(Calls[1]) /\ ByLink(Calls[2]))
    /\ includeStoreModules(includeStoreModules(visibility)) =
          [visibility EXCEPT !.available = TRUE]
    /\ LinkShown => ~visibility.available

\* The 'available' button of ModulesList was clicked twice, and the link is
\* shown again.
C12_Witness ==
    /\ panel = "ModulesList"
    /\ Len(Calls) = 2 /\ ByButton(Calls[1]) /\ ByButton(Calls[2])
    /\ Calls[1].key = "available" /\ Calls[2].key = "available"
    /\ Calls[1].from = visibility.available
    /\ LinkShown

====
